---- MODULE Spec2Model ----
(***************************************************************************)
(* Agentic Policy Copilot: the command-line driver (app.py), the turn      *)
(* graph (graph.py), the tools (tools.py) and the file-backed memory store *)
(* (memory_store.py).                                                      *)
(*                                                                         *)
(* Text is a sequence of one-character strings, so that lower(), strip(),  *)
(* split(), replace() and the substring test are computed, not assumed.    *)
(***************************************************************************)
EXTENDS Integers, Sequences, FiniteSets, TLC

(***************************************************************************)
(* Bounds of the model.                                                    *)
(***************************************************************************)
\* longest conversation (state["messages"]) explored in one session
MaxMsgs == 7
\* largest top_k handed to search_policies by the tool harness
MaxTopK == 4

(***************************************************************************)
(* Python str operations used by the program.                              *)
(***************************************************************************)
UpperChars == <<"A","B","C","D","E","F","G","H","I","J","K","L","M",
                "N","O","P","Q","R","S","T","U","V","W","X","Y","Z">>
LowerChars == <<"a","b","c","d","e","f","g","h","i","j","k","l","m",
                "n","o","p","q","r","s","t","u","v","w","x","y","z">>

LowerChar(c) ==
    IF \E i \in DOMAIN UpperChars : UpperChars[i] = c
    THEN LowerChars[CHOOSE i \in DOMAIN UpperChars : UpperChars[i] = c]
    ELSE c

\* str.lower()
Lower(s) == [i \in DOMAIN s |-> LowerChar(s[i])]

Whitespace == {" "}
Punct == {".", ",", "?", "!"}


\* strip() that drops the whitespace of the left end only
StripLeft(s) ==
    LET keep == {i \in DOMAIN s : s[i] \notin Whitespace}
    IN  IF keep = {} THEN <<>>
        ELSE SubSeq(s, CHOOSE i \in keep : \A j \in keep : i <= j, Len(s))

\* str.strip(chars): drop the characters of cs from both ends
StripChars(s, cs) ==
    LET keep == {i \in DOMAIN s : s[i] \notin cs}
    IN  IF keep = {} THEN <<>>
        ELSE LET lo == CHOOSE i \in keep : \A j \in keep : i <= j
                 hi == CHOOSE i \in keep : \A j \in keep : j <= i
             IN  SubSeq(s, lo, hi)

\* str.strip()
Strip(s) == StripChars(s, Whitespace)

\* needle in haystack
Contains(hay, needle) ==
    \E i \in 1..(Len(hay) - Len(needle) + 1) :
        SubSeq(hay, i, i + Len(needle) - 1) = needle

\* str.replace(c, "")
RECURSIVE RemoveChar(_, _)
RemoveChar(s, c) ==
    IF s = <<>> THEN <<>>
    ELSE IF Head(s) = c THEN RemoveChar(Tail(s), c)
    ELSE <<Head(s)>> \o RemoveChar(Tail(s), c)

\* str.split(): the maximal runs of non-whitespace characters, in order
RECURSIVE SplitFrom(_, _, _)
SplitFrom(s, i, word) ==
    IF i > Len(s)
    THEN IF word = <<>> THEN <<>> ELSE <<word>>
    ELSE IF s[i] \in Whitespace
    THEN IF word = <<>> THEN SplitFrom(s, i + 1, <<>>)
         ELSE <<word>> \o SplitFrom(s, i + 1, <<>>)
    ELSE SplitFrom(s, i + 1, Append(word, s[i]))

Split(s) == SplitFrom(s, 1, <<>>)

\* the elements of a sequence
Range(s) == {s[i] : i \in DOMAIN s}

\* an update in which the entries already present win
DictUpdate_old_wins(old, new) ==
    [k \in (DOMAIN old) \cup (DOMAIN new) |->
        IF k \in DOMAIN old THEN old[k] ELSE new[k]]

\* dict.update(): the entries of new win over those of old
DictUpdate(old, new) ==
    [k \in (DOMAIN old) \cup (DOMAIN new) |->
        IF k \in DOMAIN new THEN new[k] ELSE old[k]]

\* {} of Python
EmptyDict == <<>>

(***************************************************************************)
(* memory_store.py.  The profiles file is a value [kind, data]:            *)
(*   "missing"     PROFILE_PATH does not exist;                            *)
(*   "unreadable"  it exists and read_text raises OSError;                 *)
(*   "malformed"   its text is not JSON (json.loads raises);               *)
(*   "json"        its text is the JSON object data, user_id -> profile.   *)
(* The episodes file is the sequence of its lines, each line the object    *)
(* {"user_id", "summary"} that json.dumps wrote.                           *)
(***************************************************************************)
FileMissing == [kind |-> "missing", data |-> EmptyDict]
FileUnreadable == [kind |-> "unreadable", data |-> EmptyDict]
FileMalformed == [kind |-> "malformed", data |-> EmptyDict]

\* json.dumps(profiles) written by write_text
json_dumps(profiles) == [kind |-> "json", data |-> profiles]

\* json.loads(text): the object, or JSONDecodeError
json_loads(file) ==
    IF file.kind = "json" THEN [raised |-> FALSE, value |-> file.data]
    ELSE [raised |-> TRUE, value |-> EmptyDict]

\* the block with OSError caught as well
read_profiles_tolerant(file) ==
    IF file.kind # "missing"
    THEN LET parsed == json_loads(file)
         IN  IF file.kind = "unreadable" \/ parsed.raised
             THEN [raised |-> FALSE, value |-> EmptyDict]
             ELSE [raised |-> FALSE, value |-> parsed.value]
    ELSE [raised |-> FALSE, value |-> EmptyDict]

\* the block without the except clause
read_profiles_strict(file) ==
    IF file.kind # "missing"
    THEN IF file.kind = "unreadable"
         THEN [raised |-> TRUE, value |-> EmptyDict]
         ELSE json_loads(file)
    ELSE [raised |-> FALSE, value |-> EmptyDict]

\* the exists / read_text / json.loads block at the head of load and save
read_profiles(file) ==
    IF file.kind # "missing"
    THEN IF file.kind = "unreadable"
         THEN [raised |-> TRUE, value |-> EmptyDict]
         ELSE LET parsed == json_loads(file)
              IN  IF parsed.raised
                  THEN [raised |-> FALSE, value |-> EmptyDict]
                  ELSE [raised |-> FALSE, value |-> parsed.value]
    ELSE [raised |-> FALSE, value |-> EmptyDict]

\* dict.get(key, {})
DictGet(d, key) == IF key \in DOMAIN d THEN d[key] ELSE EmptyDict

load_user_profile(file, user_id) ==
    LET profiles == read_profiles(file)
    IN  IF profiles.raised
        THEN [raised |-> TRUE, value |-> EmptyDict]
        ELSE [raised |-> FALSE, value |-> DictGet(profiles.value, user_id)]

\* write_ok = FALSE: mkdir or write_text raises, the file is left as it was
save_user_profile(file, user_id, profile, write_ok) ==
    LET profiles == read_profiles(file)
    IN  IF profiles.raised \/ ~write_ok
        THEN [raised |-> TRUE, file |-> file]
        ELSE [raised |-> FALSE,
              file |-> json_dumps(DictUpdate(profiles.value,
                                             [k \in {user_id} |-> profile]))]

\* append_episode that opens the log with "w" in place of "a"
append_episode_rewrite(log, user_id, summary, write_ok) ==
    IF ~write_ok
    THEN [raised |-> TRUE, log |-> log]
    ELSE [raised |-> FALSE,
          log |-> <<[user_id |-> user_id, summary |-> summary]>>]

\* write_ok = FALSE: mkdir or open raises, the log is left as it was
append_episode(log, user_id, summary, write_ok) ==
    IF ~write_ok
    THEN [raised |-> TRUE, log |-> log]
    ELSE [raised |-> FALSE,
          log |-> Append(log, [user_id |-> user_id, summary |-> summary])]

(***************************************************************************)
(* tools.py.  The policy directory is the sequence of its *.txt files in   *)
(* glob order, each [path, text, readable].                                *)
(***************************************************************************)
Document(file) ==
    [page_content |-> file.text, metadata |-> [source |-> file.path]]

\* keywords of a normalised query (lines 33-37)
Keywords(query) ==
    LET raw_words == Split(query)
        keywords == {StripChars(raw_words[i], Punct) :
                        i \in {j \in DOMAIN raw_words : Len(raw_words[j]) > 3}}
    IN  IF keywords = {} THEN {query} ELSE keywords

\* the loop over POLICY_DIR.glob("*.txt") from file i on (lines 41-58)
RECURSIVE ScanPolicies(_, _, _, _, _)
ScanPolicies(files, keywords, top_k, i, docs) ==
    IF i > Len(files) THEN docs
    ELSE IF ~files[i].readable
    THEN ScanPolicies(files, keywords, top_k, i + 1, docs)
    ELSE LET text_lower == Lower(files[i].text)
             docs2 == IF \E kw \in keywords : Contains(text_lower, kw)
                      THEN Append(docs, Document(files[i]))
                      ELSE docs
         IN  IF Len(docs2) >= top_k THEN docs2
             ELSE ScanPolicies(files, keywords, top_k, i + 1, docs2)

\* search_policies without lower() on the query
search_policies_cased(files, query, top_k) ==
    LET q == Strip(query)
    IN  IF q = <<>> THEN <<>>
        ELSE ScanPolicies(files, Keywords(q), top_k, 1, <<>>)

search_policies(files, query, top_k) ==
    LET q == Lower(Strip(query))
    IN  IF q = <<>> THEN <<>>
        ELSE ScanPolicies(files, Keywords(q), top_k, 1, <<>>)

\* the default of the top_k parameter
DefaultTopK == 3

get_user_profile_tool(file, user_id) == load_user_profile(file, user_id)


\* the tool saving the merged profile and returning the new fields alone
update_user_profile_tool_returns_fields(file, user_id, new_fields, write_ok) ==
    LET loaded == load_user_profile(file, user_id)
        profile == DictUpdate(loaded.value, new_fields)
        saved == save_user_profile(file, user_id, profile, write_ok)
    IN  IF loaded.raised \/ saved.raised
        THEN [raised |-> TRUE, value |-> EmptyDict, file |-> file]
        ELSE [raised |-> FALSE, value |-> new_fields, file |-> saved.file]

update_user_profile_tool(file, user_id, new_fields, write_ok) ==
    LET loaded == load_user_profile(file, user_id)
        profile == DictUpdate(loaded.value, new_fields)
        saved == save_user_profile(file, user_id, profile, write_ok)
    IN  IF loaded.raised \/ saved.raised
        THEN [raised |-> TRUE, value |-> EmptyDict, file |-> file]
        ELSE [raised |-> FALSE, value |-> profile, file |-> saved.file]

(***************************************************************************)
(* Texts of the model: input lines, model replies, policy files.           *)
(***************************************************************************)
\* "Refund Policy?"
LineRefund == <<"R","e","f","u","n","d"," ","P","o","l","i","c","y","?">>
\* " loan "
LineLoan == <<" ","l","o","a","n"," ">>
\* "My favorite color is Blue."
LineColor == <<"M","y"," ","f","a","v","o","r","i","t","e"," ","c","o","l","o","r"," ","i","s"," ","B","l","u","e",".">>
\* "hi"
LineHi == <<"h","i">>
\* " Q "
LineQuit == <<" ","Q"," ">>
\* "  "
LineBlank == <<" "," ">>

\* the lines the operator may type
Lines == {LineRefund, LineLoan, LineColor, LineHi, LineQuit, LineBlank}

\* "Action: search_policies"
ReplySearch == <<"A","c","t","i","o","n",":"," ","s","e","a","r","c","h","_","p","o","l","i","c","i","e","s">>
\* "ACTION: update_profile"
ReplyUpdate == <<"A","C","T","I","O","N",":"," ","u","p","d","a","t","e","_","p","r","o","f","i","l","e">>
\* "Action: ask_clarification"
ReplyAsk == <<"A","c","t","i","o","n",":"," ","a","s","k","_","c","l","a","r","i","f","i","c","a","t","i","o","n">>
\* "Sure."
ReplySure == <<"S","u","r","e",".">>
\* "Action: answer"
ReplyAnswer == <<"A","c","t","i","o","n",":"," ","a","n","s","w","e","r">>
\* "action: answer, not action: update_profile"
ReplyTwo == <<"a","c","t","i","o","n",":"," ","a","n","s","w","e","r",","," ","n","o","t"," ","a","c","t","i","o","n",":"," ","u","p","d","a","t","e","_","p","r","o","f","i","l","e">>

\* the replies the model service may give within a session
Replies == {ReplySearch, ReplyUpdate, ReplyAsk, ReplySure}

\* the replies handed to the parsing of the planner on its own
AllReplies == Replies \cup {ReplyAnswer, ReplyTwo}

PolicyFile(path, text, readable) ==
    [path |-> path, text |-> text, readable |-> readable]

\* policies/refund.txt: "Refunds within 30 days."
FileRefund == PolicyFile("policies/refund.txt", <<"R","e","f","u","n","d","s"," ","w","i","t","h","i","n"," ","3","0"," ","d","a","y","s",".">>, TRUE)
\* policies/privacy.txt: "PRIVACY POLICY"
FilePrivacy == PolicyFile("policies/privacy.txt", <<"P","R","I","V","A","C","Y"," ","P","O","L","I","C","Y">>, TRUE)
\* policies/ticket.txt: "Ticket policy"
FileTicket == PolicyFile("policies/ticket.txt", <<"T","i","c","k","e","t"," ","p","o","l","i","c","y">>, TRUE)
\* policies/escalation.txt: "Escalation policy"
FileEscalation == PolicyFile("policies/escalation.txt", <<"E","s","c","a","l","a","t","i","o","n"," ","p","o","l","i","c","y">>, TRUE)
\* policies/data.txt: "Data policy"
FileData == PolicyFile("policies/data.txt", <<"D","a","t","a"," ","p","o","l","i","c","y">>, TRUE)
\* policies/locked.txt: "Refund policy", not readable
FileLocked == PolicyFile("policies/locked.txt", <<"R","e","f","u","n","d"," ","p","o","l","i","c","y">>, FALSE)

\* the policy directories a session is run in
Corpora == { <<FileRefund>>,
             <<FileLocked, FilePrivacy, FileRefund, FileTicket,
               FileEscalation, FileData>> }

\* the policy directories the tool functions are called in
ToolCorpora == Corpora \cup { <<>>, <<FileData, FileLocked>> }

(***************************************************************************)
(* graph.py.  AgentState is a dict: a function whose domain is the set of  *)
(* keys present, so that "key in state", state.get and state.setdefault    *)
(* are what they are in the code.                                          *)
(***************************************************************************)
Put(st, key, value) ==
    [k \in (DOMAIN st) \cup {key} |-> IF k = key THEN value ELSE st[k]]

SetDefault(st, key, value) == IF key \in DOMAIN st THEN st ELSE Put(st, key, value)

HumanMessage(content) == [role |-> "user", content |-> content]
AIMessage(content) == [role |-> "assistant", content |-> content]


SystemMessage(content) == [role |-> "system", content |-> content]

\* index of the last message of a role (the reversed() loops), 0 if none
LastOfRole(messages, role) ==
    LET hits == {i \in DOMAIN messages : messages[i].role = role}
    IN  IF hits = {} THEN 0 ELSE CHOOSE i \in hits : \A j \in hits : j <= i

\* "refund", "loan", "privacy", "ticket", "escalation", "policy"
policy_keywords ==
    { <<"r","e","f","u","n","d">>, <<"l","o","a","n">>, <<"p","r","i","v","a","c","y">>, <<"t","i","c","k","e","t">>, <<"e","s","c","a","l","a","t","i","o","n">>, <<"p","o","l","i","c","y">> }


\* the check that never finds the message already searched
already_searched_never(st, content) == FALSE

\* state.get("policy_query") == last_human.content
already_searched(st, content) ==
    "policy_query" \in DOMAIN st /\ st["policy_query"] = content

\* the keyword router without lower()
keyword_router_cased(st) ==
    LET last_human == LastOfRole(st["messages"], "user")
    IN  /\ last_human # 0
        /\ LET content == st["messages"][last_human].content
           IN  /\ \E kw \in policy_keywords : Contains(content, kw)
               /\ ~already_searched(st, content)

\* the keyword router of planner (lines 133-140): does it force a search?
keyword_router(st) ==
    LET last_human == LastOfRole(st["messages"], "user")
    IN  /\ last_human # 0
        /\ LET content == st["messages"][last_human].content
               text == Lower(content)
           IN  /\ \E kw \in policy_keywords : Contains(text, kw)
               /\ ~already_searched(st, content)

\* "action: search_policies" and the other markers
MarkerSearch == <<"a","c","t","i","o","n",":"," ","s","e","a","r","c","h","_","p","o","l","i","c","i","e","s">>
MarkerUpdate == <<"a","c","t","i","o","n",":"," ","u","p","d","a","t","e","_","p","r","o","f","i","l","e">>
MarkerAsk == <<"a","c","t","i","o","n",":"," ","a","s","k","_","c","l","a","r","i","f","i","c","a","t","i","o","n">>
MarkerAnswer == <<"a","c","t","i","o","n",":"," ","a","n","s","w","e","r">>


\* the chain with the marker of answer tested first
parse_action_answer_first(content) ==
    LET content_lower == Lower(content)
    IN  IF Contains(content_lower, MarkerAnswer) THEN "answer"
        ELSE IF Contains(content_lower, MarkerSearch) THEN "search_policies"
        ELSE IF Contains(content_lower, MarkerUpdate) THEN "update_profile"
        ELSE IF Contains(content_lower, MarkerAsk) THEN "ask_clarification"
        ELSE "answer"

\* the if / elif chain of planner (lines 170-183)
parse_action(content) ==
    LET content_lower == Lower(content)
    IN  IF Contains(content_lower, MarkerSearch) THEN "search_policies"
        ELSE IF Contains(content_lower, MarkerUpdate) THEN "update_profile"
        ELSE IF Contains(content_lower, MarkerAsk) THEN "ask_clarification"
        ELSE IF Contains(content_lower, MarkerAnswer) THEN "answer"
        ELSE "answer"


\* the first line of the instructions planner puts before the conversation
\* in its request: "You are a support copilot for internal policies."
PlannerInstructions == SystemMessage(<<"Y","o","u"," ","a","r","e"," ","a"," ","s","u","p","p","o","r","t"," ","c","o","p","i","l","o","t"," ","f","o","r"," ","i","n","t","e","r","n","a","l"," ","p","o","l","i","c","i","e","s",".">>)

\* planner keeping the request list, instructions first, as the conversation
planner_llm_keeps_request(st, ai_msg) ==
    Put(Put(st, "messages",
            Append(<<PlannerInstructions>> \o st["messages"], ai_msg)),
        "next_action", parse_action(ai_msg.content))

\* planner when the keyword router fires (lines 141-142)
planner_rule(st) == Put(st, "next_action", "search_policies")

\* planner when the model is asked and replies ai_msg (lines 164-186)
planner_llm(st, ai_msg) ==
    Put(Put(st, "messages", Append(st["messages"], ai_msg)),
        "next_action", parse_action(ai_msg.content))

\* the edges with update_profile sent to answer
route_update_to_answer(st) ==
    CASE st["next_action"] = "answer" -> "answer"
      [] st["next_action"] = "search_policies" -> "run_tools"
      [] st["next_action"] = "update_profile" -> "answer"
      [] st["next_action"] = "ask_clarification" -> "answer"

\* the edges with ask_clarification sent to run_tools
route_ask_to_tools(st) ==
    CASE st["next_action"] = "answer" -> "answer"
      [] st["next_action"] = "search_policies" -> "run_tools"
      [] st["next_action"] = "update_profile" -> "run_tools"
      [] st["next_action"] = "ask_clarification" -> "run_tools"

\* the conditional edges out of planner (lines 327-336)
route(st) ==
    CASE st["next_action"] = "answer" -> "answer"
      [] st["next_action"] = "search_policies" -> "run_tools"
      [] st["next_action"] = "update_profile" -> "run_tools"
      [] st["next_action"] = "ask_clarification" -> "answer"

\* "favorite color"
PhraseColor == <<"f","a","v","o","r","i","t","e"," ","c","o","l","o","r">>

\* the extraction rule without replace(".", "")
extract_fields_keeps_dots(messages) ==
    LET last_human == LastOfRole(messages, "user")
    IN  IF last_human = 0 THEN EmptyDict
        ELSE LET text == Strip(messages[last_human].content)
                 lower == Lower(text)
                 parts == Split(text)
             IN  IF Contains(lower, PhraseColor) /\ parts # <<>>
                 THEN [k \in {"favorite_color"} |-> parts[Len(parts)]]
                 ELSE EmptyDict

\* the toy extraction rule of run_tools (lines 216-228)
extract_fields(messages) ==
    LET last_human == LastOfRole(messages, "user")
    IN  IF last_human = 0 THEN EmptyDict
        ELSE LET text == Strip(messages[last_human].content)
                 lower == Lower(text)
                 parts == Split(RemoveChar(text, "."))
             IN  IF Contains(lower, PhraseColor) /\ parts # <<>>
                 THEN [k \in {"favorite_color"} |-> parts[Len(parts)]]
                 ELSE EmptyDict


\* run_tools recording the lowercased query as policy_query
run_tools_lowers_query(st, files, pfile, write_ok) ==
    LET action == IF "next_action" \in DOMAIN st THEN st["next_action"] ELSE "answer"
        user_id == st["user_id"]
        messages == IF "messages" \in DOMAIN st THEN st["messages"] ELSE <<>>
        last_human == LastOfRole(messages, "user")
    IN  IF action = "search_policies"
        THEN LET query == IF last_human # 0 THEN messages[last_human].content ELSE <<>>
                 hits == search_policies(files, query, DefaultTopK)
             IN  [raised |-> FALSE, file |-> pfile, searched |-> 1, updated |-> 0,
                  state |-> SetDefault(Put(Put(st, "policy_query", Lower(query)),
                                           "retrieved_policies", hits),
                                       "tool_results", EmptyDict)]
        ELSE IF action = "update_profile" /\ extract_fields(messages) # EmptyDict
        THEN LET res == update_user_profile_tool(pfile, user_id,
                                                 extract_fields(messages), write_ok)
             IN  IF res.raised
                 THEN [raised |-> TRUE, file |-> pfile, searched |-> 0, updated |-> 1,
                       state |-> st]
                 ELSE [raised |-> FALSE, file |-> res.file, searched |-> 0, updated |-> 1,
                       state |-> SetDefault(Put(Put(st, "user_profile", res.value),
                                                "profile_updated", TRUE),
                                            "tool_results", EmptyDict)]
        ELSE [raised |-> FALSE, file |-> pfile, searched |-> 0, updated |-> 0,
              state |-> SetDefault(st, "tool_results", EmptyDict)]

\* run_tools: the new state, the new profiles file, and what was called
run_tools(st, files, pfile, write_ok) ==
    LET action == IF "next_action" \in DOMAIN st THEN st["next_action"] ELSE "answer"
        user_id == st["user_id"]
        messages == IF "messages" \in DOMAIN st THEN st["messages"] ELSE <<>>
        last_human == LastOfRole(messages, "user")
    IN  IF action = "search_policies"
        THEN LET query == IF last_human # 0 THEN messages[last_human].content ELSE <<>>
                 hits == search_policies(files, query, DefaultTopK)
             IN  [raised |-> FALSE, file |-> pfile, searched |-> 1, updated |-> 0,
                  state |-> SetDefault(Put(Put(st, "policy_query", query),
                                           "retrieved_policies", hits),
                                       "tool_results", EmptyDict)]
        ELSE IF action = "update_profile" /\ extract_fields(messages) # EmptyDict
        THEN LET res == update_user_profile_tool(pfile, user_id,
                                                 extract_fields(messages), write_ok)
             IN  IF res.raised
                 THEN [raised |-> TRUE, file |-> pfile, searched |-> 0, updated |-> 1,
                       state |-> st]
                 ELSE [raised |-> FALSE, file |-> res.file, searched |-> 0, updated |-> 1,
                       state |-> SetDefault(Put(Put(st, "user_profile", res.value),
                                                "profile_updated", TRUE),
                                            "tool_results", EmptyDict)]
        ELSE [raised |-> FALSE, file |-> pfile, searched |-> 0, updated |-> 0,
              state |-> SetDefault(st, "tool_results", EmptyDict)]

\* answer that appends the reply and leaves done as it was
answer_keeps_done(st, ai_msg) ==
    Put(st, "messages", Append(st["messages"], ai_msg))

\* answer when the model replies ai_msg (lines 273-278)
answer(st, ai_msg) ==
    Put(Put(st, "messages", Append(st["messages"], ai_msg)), "done", TRUE)

\* log_episode_node: the new episodes log
log_episode_node(st, log, write_ok) ==
    LET messages == IF "messages" \in DOMAIN st THEN st["messages"] ELSE <<>>
        last_ai == LastOfRole(messages, "assistant")
    IN  IF last_ai # 0
        THEN append_episode(log,
                            IF "user_id" \in DOMAIN st THEN st["user_id"]
                            ELSE "unknown-user",
                            messages[last_ai].content, write_ok)
        ELSE [raised |-> FALSE, log |-> log]

\* ingest_user after a successful or skipped profile load (lines 93-104)
ingest_user(st, pfile) ==
    LET user_id == IF "user_id" \in DOMAIN st THEN st["user_id"] ELSE ""
        load == user_id # "" /\ "user_profile" \notin DOMAIN st
        profile == get_user_profile_tool(pfile, user_id)
        st1 == IF load
               THEN Put(Put(st, "user_profile", profile.value),
                        "profile_updated", FALSE)
               ELSE st
    IN  [raised |-> load /\ profile.raised,
         state |-> SetDefault(SetDefault(SetDefault(st1,
                        "retrieved_policies", <<>>),
                        "tool_results", EmptyDict),
                        "done", FALSE)]

(***************************************************************************)
(* State.                                                                  *)
(*   state          the dict `state` of main(), threaded through the graph *)
(*   pc             where control is: "idle" at the prompt, a node of the  *)
(*                  graph, "end" when invoke has returned, "exited" after  *)
(*                  the loop, "crashed" after an uncaught exception,       *)
(*                  "tools" when the tool functions are called directly    *)
(*   user_input     the local user_input of main()                         *)
(*   printed        the text of the last "Agent: ..." line                 *)
(*   profiles_file  data/user_profiles.json                                *)
(*   episodes_file  data/episodes.jsonl                                    *)
(*   policy_files   policies/*.txt                                         *)
(*   turn           history of the current invocation: the length of       *)
(*                  messages and the log at entry, the calls made so far,  *)
(*                  the decisions of planner in order; and the line last   *)
(*                  read at the prompt (<<>> at the start and on EOF)      *)
(*   call           the last direct call of a tool function and its result *)
(***************************************************************************)
VARIABLES state, pc, user_input, printed, profiles_file, episodes_file,
          policy_files, turn, call

vars == <<state, pc, user_input, printed, profiles_file, episodes_file,
          policy_files, turn, call>>

\* thread_id and user_id of main()
DemoUser == "demo-user-123"
OtherUser == "u2"

\* "red", "blue", "Lyon"
Red == <<"r","e","d">>
Blue == <<"b","l","u","e">>
Lyon == <<"L","y","o","n">>

\* the contents data/user_profiles.json may have when the program starts
ProfileFiles ==
    { FileMissing, FileUnreadable, FileMalformed,
      json_dumps([u \in {DemoUser} |->
                    [k \in {"favorite_color", "city"} |->
                        IF k = "city" THEN Lyon ELSE Red]]),
      json_dumps([u \in {OtherUser} |-> [k \in {"favorite_color"} |-> Blue]]) }

\* the contents data/episodes.jsonl may have when the program starts
EpisodeLogs == { <<[user_id |-> OtherUser, summary |-> Red]>> }

NoTurn ==
    [entry_len |-> 0, entry_log |-> <<>>, plan_llm |-> 0, answer_llm |-> 0,
     rule_hits |-> 0, searches |-> 0, updates |-> 0, reply |-> <<>>,
     decisions |-> <<>>, line |-> <<>>]

NoCall == [op |-> "none"]

\* main() up to the first prompt (app.py lines 19-32)
Init ==
    /\ state = [messages |-> <<>>, user_id |-> DemoUser]
    /\ pc = "idle"
    /\ user_input = <<>>
    /\ printed = <<>>
    /\ profiles_file \in ProfileFiles
    /\ episodes_file \in EpisodeLogs
    /\ policy_files \in Corpora
    /\ turn = NoTurn
    /\ call = NoCall

\* "exit", "quit", "q"
ExitWords == { <<"e","x","i","t">>, <<"q","u","i","t">>, <<"q">> }

\* "(no response, something went wrong)"
NoResponse == <<"(","n","o"," ","r","e","s","p","o","n","s","e",","," ","s","o","m","e","t","h","i","n","g"," ","w","e","n","t"," ","w","r","o","n","g",")">>

\* one pass of the while loop up to app.invoke (app.py lines 34-56)
DriverRead(line) ==
    /\ pc = "idle"
    /\ user_input' = Strip(line)
    /\ IF Lower(user_input') \in ExitWords
       THEN /\ pc' = "exited"
            /\ turn' = [turn EXCEPT !.line = <<line>>]
            /\ UNCHANGED state
       ELSE IF user_input' = <<>>
       THEN /\ turn' = [turn EXCEPT !.line = <<line>>]
            /\ UNCHANGED <<pc, state>>
       ELSE /\ Len(state["messages"]) + 3 <= MaxMsgs
            /\ state' = Put(state, "messages",
                            Append(state["messages"], HumanMessage(user_input')))
            /\ turn' = [NoTurn EXCEPT !.entry_len = Len(state'["messages"]),
                                      !.entry_log = episodes_file,
                                      !.line = <<line>>]
            /\ pc' = "ingest_user"
    /\ UNCHANGED <<printed, profiles_file, episodes_file, policy_files, call>>

\* EOFError or KeyboardInterrupt at the prompt (app.py lines 37-39)
DriverEOF ==
    /\ pc = "idle"
    /\ pc' = "exited"
    /\ turn' = [turn EXCEPT !.line = <<>>]
    /\ UNCHANGED <<state, user_input, printed, profiles_file, episodes_file,
                   policy_files, call>>


\* the rest of the pass printing the first message of the list
DriverPrintFirst ==
    /\ pc = "end"
    /\ LET messages == IF "messages" \in DOMAIN state THEN state["messages"] ELSE <<>>
       IN  printed' = IF messages = <<>> THEN NoResponse
                      ELSE messages[1].content
    /\ pc' = "idle"
    /\ UNCHANGED <<state, user_input, profiles_file, episodes_file,
                   policy_files, turn, call>>

\* the rest of the pass once invoke has returned (app.py lines 58-65)
DriverPrint ==
    /\ pc = "end"
    /\ LET messages == IF "messages" \in DOMAIN state THEN state["messages"] ELSE <<>>
       IN  printed' = IF messages = <<>> THEN NoResponse
                      ELSE messages[Len(messages)].content
    /\ pc' = "idle"
    /\ UNCHANGED <<state, user_input, profiles_file, episodes_file,
                   policy_files, turn, call>>

IngestUser ==
    /\ pc = "ingest_user"
    /\ LET res == ingest_user(state, profiles_file)
       IN  IF res.raised
           THEN pc' = "crashed" /\ UNCHANGED state
           ELSE pc' = "planner" /\ state' = res.state
    /\ UNCHANGED <<user_input, printed, profiles_file, episodes_file,
                   policy_files, turn, call>>

\* a reply is taken only while the conversation still has room for the
\* messages the turn must yet append
Room(st, reply) ==
    Len(st["messages"]) + 1
      + (IF parse_action(reply) \in {"answer", "ask_clarification"} THEN 1 ELSE 2)
      <= MaxMsgs

Planner ==
    /\ pc = "planner"
    /\ \/ /\ keyword_router(state)
          /\ state' = planner_rule(state)
          /\ turn' = [turn EXCEPT
                        !.rule_hits = @ + 1,
                        !.decisions = Append(@, [by |-> "rule",
                                                 action |-> state'["next_action"]])]
          /\ pc' = route(state')
       \/ /\ ~keyword_router(state)
          /\ \E reply \in Replies :
                /\ Room(state, reply)
                /\ state' = planner_llm(state, AIMessage(reply))
          /\ turn' = [turn EXCEPT
                        !.plan_llm = @ + 1,
                        !.decisions = Append(@, [by |-> "model",
                                                 action |-> state'["next_action"]])]
          /\ pc' = route(state')
       \/ \* call_llm raises
          /\ ~keyword_router(state)
          /\ turn' = [turn EXCEPT !.plan_llm = @ + 1]
          /\ pc' = "crashed"
          /\ UNCHANGED state
    /\ UNCHANGED <<user_input, printed, profiles_file, episodes_file,
                   policy_files, call>>

RunTools ==
    /\ pc = "run_tools"
    /\ \E write_ok \in BOOLEAN :
          LET res == run_tools(state, policy_files, profiles_file, write_ok)
          IN  /\ turn' = [turn EXCEPT !.searches = @ + res.searched,
                                      !.updates = @ + res.updated]
              /\ state' = res.state
              /\ profiles_file' = res.file
              /\ pc' = IF res.raised THEN "crashed" ELSE "planner"
    /\ UNCHANGED <<user_input, printed, episodes_file, policy_files, call>>

Answer ==
    /\ pc = "answer"
    /\ \/ \E reply \in Replies :
             /\ state' = answer(state, AIMessage(reply))
             /\ turn' = [turn EXCEPT !.answer_llm = @ + 1, !.reply = <<reply>>]
             /\ pc' = "log_episode"
       \/ \* call_llm raises
          /\ turn' = [turn EXCEPT !.answer_llm = @ + 1]
          /\ pc' = "crashed"
          /\ UNCHANGED state
    /\ UNCHANGED <<user_input, printed, profiles_file, episodes_file,
                   policy_files, call>>

LogEpisode ==
    /\ pc = "log_episode"
    /\ \E write_ok \in BOOLEAN :
          LET res == log_episode_node(state, episodes_file, write_ok)
          IN  /\ episodes_file' = res.log
              /\ pc' = IF res.raised THEN "crashed" ELSE "end"
    /\ UNCHANGED <<state, user_input, printed, profiles_file, policy_files,
                   turn, call>>

Next ==
    \/ \E line \in Lines : DriverRead(line)
    \/ DriverEOF
    \/ IngestUser
    \/ Planner
    \/ RunTools
    \/ Answer
    \/ LogEpisode
    \/ DriverPrint

Spec == Init /\ [][Next]_vars

(***************************************************************************)
(* The session in which every call of the model returns.  The program is  *)
(* one thread that runs a started invocation node after node, so a node   *)
(* that can run does run; only the fairness of the last two nodes is      *)
(* assumed.                                                                *)
(***************************************************************************)
PlannerReturns == Planner /\ pc' # "crashed"

AnswerReturns == Answer /\ pc' # "crashed"

NextReturns ==
    \/ \E line \in Lines : DriverRead(line)
    \/ DriverEOF
    \/ IngestUser
    \/ PlannerReturns
    \/ RunTools
    \/ AnswerReturns
    \/ LogEpisode
    \/ DriverPrint

SpecReturns ==
    /\ Init
    /\ [][NextReturns]_vars
    /\ WF_vars(AnswerReturns)
    /\ WF_vars(LogEpisode)

(***************************************************************************)
(* The tool functions called directly, as a test of tools.py and           *)
(* memory_store.py would call them, with arguments of any shape.           *)
(***************************************************************************)
\* "??!?" and "ok"
QueryPunct == <<"?","?","!","?">>
QueryShort == <<"o","k">>

\* the queries handed to search_policies
Queries == Lines \cup {<<>>, QueryPunct, QueryShort}

\* the mappings handed to update_user_profile_tool
FieldMaps ==
    { EmptyDict,
      [k \in {"favorite_color"} |-> Blue],
      [k \in {"favorite_color", "nickname"} |->
          IF k = "nickname" THEN Red ELSE Lyon] }

Users == {DemoUser, OtherUser}

InitTools ==
    /\ state = [messages |-> <<>>, user_id |-> DemoUser]
    /\ pc = "tools"
    /\ user_input = <<>>
    /\ printed = <<>>
    /\ profiles_file \in ProfileFiles
    /\ episodes_file \in EpisodeLogs
    /\ policy_files \in ToolCorpora
    /\ turn = NoTurn
    /\ call = NoCall

ToolSearch(query, top_k) ==
    /\ pc = "tools"
    /\ call' = [op |-> "search_policies", query |-> query, top_k |-> top_k,
                result |-> search_policies(policy_files, query, top_k)]
    /\ UNCHANGED <<state, pc, user_input, printed, profiles_file,
                   episodes_file, policy_files, turn>>

ToolUpdate(user_id, new_fields) ==
    /\ pc = "tools"
    /\ \E write_ok \in BOOLEAN :
          LET res == update_user_profile_tool(profiles_file, user_id,
                                              new_fields, write_ok)
          IN  /\ call' = [op |-> "update_user_profile_tool", user_id |-> user_id,
                          new_fields |-> new_fields, before |-> profiles_file,
                          raised |-> res.raised, value |-> res.value]
              /\ profiles_file' = res.file
    /\ UNCHANGED <<state, pc, user_input, printed, episodes_file,
                   policy_files, turn>>

ToolGet(user_id) ==
    /\ pc = "tools"
    /\ LET res == get_user_profile_tool(profiles_file, user_id)
       IN  call' = [op |-> "get_user_profile_tool", user_id |-> user_id,
                    file |-> profiles_file,
                    raised |-> res.raised, value |-> res.value,
                    prev |-> IF call.op = "update_user_profile_tool"
                             THEN call ELSE NoCall]
    /\ UNCHANGED <<state, pc, user_input, printed, profiles_file,
                   episodes_file, policy_files, turn>>

ToolParse(reply) ==
    /\ pc = "tools"
    /\ call' = [op |-> "parse_action", reply |-> reply,
                result |-> parse_action(reply)]
    /\ UNCHANGED <<state, pc, user_input, printed, profiles_file,
                   episodes_file, policy_files, turn>>

NextTools ==
    \/ \E query \in Queries, top_k \in 0..MaxTopK : ToolSearch(query, top_k)
    \/ \E user_id \in Users, new_fields \in FieldMaps : ToolUpdate(user_id, new_fields)
    \/ \E user_id \in Users : ToolGet(user_id)
    \/ \E reply \in AllReplies : ToolParse(reply)

SpecTools == InitTools /\ [][NextTools]_vars

(***************************************************************************)
(* Properties.                                                             *)
(***************************************************************************)
\* the messages of the conversation
Messages == IF "messages" \in DOMAIN state THEN state["messages"] ELSE <<>>

\* the nodes of an invocation that run before answer has completed
BeforeAnswerDone == {"ingest_user", "planner", "run_tools", "answer"}

\* s is an initial part of t
IsPrefix(s, t) == Len(s) <= Len(t) /\ SubSeq(t, 1, Len(s)) = s

\* C1: an invocation that reaches the end state has done = true and has
\* appended to messages, after the messages it was entered with, at least
\* one assistant message.
C1_TurnCompletion ==
    pc = "end" =>
        /\ "done" \in DOMAIN state /\ state["done"] = TRUE
        /\ Len(Messages) > turn.entry_len
        /\ \E i \in (turn.entry_len + 1)..Len(Messages) :
              Messages[i].role = "assistant"

\* a first turn has reached the end state
C1_Witness == pc = "end" /\ turn.entry_len = 1 /\ turn.answer_llm = 1

\* C2: at the end state the log is the log at entry plus the one record
\* {user_id, reply of Answer in this turn}; while Answer has not completed,
\* also when the turn has aborted, the log is the log at entry; and every
\* step keeps the lines already in the log.
C2_EpisodeLog ==
    /\ [](pc = "end" =>
            /\ turn.reply # <<>>
            /\ episodes_file =
                  Append(turn.entry_log,
                         [user_id |-> DemoUser, summary |-> turn.reply[1]]))
    /\ []((pc \in BeforeAnswerDone \/ (pc = "crashed" /\ turn.reply = <<>>))
            => episodes_file = turn.entry_log)
    /\ [][IsPrefix(episodes_file, episodes_file')]_vars

\* the second completed turn of a session: the log already held a record
\* of this session on entry
C2_Witness ==
    /\ pc = "end"
    /\ Len(turn.entry_log) >= 2
    /\ Len(episodes_file) = Len(turn.entry_log) + 1

\* the text of the most recent user message, wrapped; <<>> if there is none
LatestUserText ==
    LET users == {i \in DOMAIN Messages : Messages[i].role = "user"}
    IN  IF users = {} THEN <<>>
        ELSE <<Messages[CHOOSE i \in users : \A j \in users : j <= i].content>>

\* text contains word in some mix of upper and lower case
ContainsAnyCase(text, word) ==
    \E i \in 1..(Len(text) - Len(word) + 1) :
        \A j \in 1..Len(word) : LowerChar(text[i + j - 1]) = word[j]

\* the latest user message names a policy keyword
NamesPolicyKeyword ==
    /\ LatestUserText # <<>>
    /\ \E kw \in policy_keywords : ContainsAnyCase(LatestUserText[1], kw)

\* policy_query is exactly the latest user message
QueryIsLatest ==
    /\ LatestUserText # <<>>
    /\ "policy_query" \in DOMAIN state
    /\ state["policy_query"] = LatestUserText[1]

\* C3: a Plan step sets next_action = search_policies without a model call
\* and without appending to messages exactly when the latest user message
\* names a policy keyword and policy_query differs from its text; otherwise
\* the step consults the model.
C3_RuleRouting ==
    [][ pc = "planner" =>
          /\ ( /\ "next_action" \in DOMAIN state'
               /\ state'["next_action"] = "search_policies"
               /\ turn'.plan_llm = turn.plan_llm
               /\ state'["messages"] = state["messages"] )
             <=> (NamesPolicyKeyword /\ ~QueryIsLatest)
          /\ ~(NamesPolicyKeyword /\ ~QueryIsLatest)
                => turn'.plan_llm = turn.plan_llm + 1 ]_vars

\* in one turn the rule has fired once and then, the query being recorded,
\* the model has been consulted for the same message
C3_Witness ==
    /\ pc \in {"answer", "run_tools"}
    /\ turn.rule_hits = 1
    /\ turn.plan_llm = 1
    /\ NamesPolicyKeyword /\ QueryIsLatest

\* the turn was started from an empty session with one user message that
\* names a policy keyword
FirstTurnKeyword ==
    /\ turn.entry_len = 1
    /\ Messages # <<>> /\ Messages[1].role = "user"
    /\ NamesPolicyKeyword

\* the readable policy files that hold, in any case, a word of the message
\* longer than 3 characters (its punctuation stripped)
MatchingFiles ==
    IF LatestUserText = <<>> THEN {}
    ELSE {i \in DOMAIN policy_files :
            /\ policy_files[i].readable
            /\ \E kw \in Keywords(Lower(Strip(LatestUserText[1]))) :
                  ContainsAnyCase(policy_files[i].text, kw)}

\* the document of the first matching file in directory order
FirstMatch ==
    Document(policy_files[CHOOSE i \in MatchingFiles :
                              \A j \in MatchingFiles : i <= j])

\* C4 as stated: the turn ends with the routing done by the keyword
\* short-circuit and no model call made for routing, and with the matching
\* document retrieved.
C4_NoRoutingCall ==
    (pc = "end" /\ FirstTurnKeyword /\ MatchingFiles # {}) =>
        /\ turn.rule_hits >= 1
        /\ turn.plan_llm = 0
        /\ FirstMatch \in Range(state["retrieved_policies"])

\* C4 amended: the first Plan step of such a turn routes to the search by
\* the keyword short-circuit with no model call; after the search Plan
\* consults the model, so a turn that reaches the end state has made at
\* least one model call for routing besides the one call of Answer, and its
\* retrieved_policies holds the matching document.
C4_EndToEnd ==
    FirstTurnKeyword =>
        /\ (pc = "run_tools" /\ turn.searches = 0) =>
              (turn.rule_hits = 1 /\ turn.plan_llm = 0)
        /\ pc = "end" =>
              /\ turn.rule_hits = 1
              /\ turn.plan_llm >= 1
              /\ turn.answer_llm = 1
              /\ state["next_action"] \in {"answer", "ask_clarification"}
              /\ MatchingFiles # {} =>
                    FirstMatch \in Range(state["retrieved_policies"])

\* such a turn has reached the end state with three documents retrieved
C4_Witness ==
    /\ pc = "end"
    /\ FirstTurnKeyword
    /\ MatchingFiles # {}
    /\ Len(state["retrieved_policies"]) = DefaultTopK

\* C5: search_policies returns at most top_k documents, for every top_k >= 0.
C5_AtMostTopK ==
    call.op = "search_policies" => Len(call.result) <= call.top_k

\* the facts stored for a user in a profiles file
StoredFacts(file, user_id) ==
    IF file.kind = "json" /\ user_id \in DOMAIN file.data
    THEN file.data[user_id]
    ELSE EmptyDict

\* C6: update_user_profile_tool(user_id, fields) followed by
\* get_user_profile_tool(user_id) returns the facts stored before together
\* with fields, fields winning, and both calls return the same mapping.
C6_RoundTrip ==
    ( /\ call.op = "get_user_profile_tool"
      /\ call.prev.op = "update_user_profile_tool"
      /\ call.prev.user_id = call.user_id
      /\ ~call.prev.raised ) =>
        LET stored == StoredFacts(call.prev.before, call.user_id)
            fields == call.prev.new_fields
        IN  /\ ~call.raised
            /\ call.value = call.prev.value
            /\ DOMAIN call.value = (DOMAIN stored) \cup (DOMAIN fields)
            /\ \A k \in DOMAIN call.value :
                  call.value[k] = IF k \in DOMAIN fields THEN fields[k]
                                  ELSE stored[k]

\* a round trip in which fields overrode one stored fact and kept another
C6_Witness ==
    /\ call.op = "get_user_profile_tool"
    /\ call.prev.op = "update_user_profile_tool"
    /\ call.prev.user_id = call.user_id
    /\ ~call.prev.raised
    /\ LET stored == StoredFacts(call.prev.before, call.user_id)
       IN  /\ "city" \in DOMAIN stored
           /\ "favorite_color" \in DOMAIN stored
           /\ "favorite_color" \in DOMAIN call.prev.new_fields
           /\ stored["favorite_color"] # call.prev.new_fields["favorite_color"]

C8_LoadDefaults ==
    call.op = "get_user_profile_tool" =>
        /\ call.file.kind \in {"missing", "malformed"} =>
              (~call.raised /\ call.value = EmptyDict)
        /\ (call.file.kind = "json" /\ call.user_id \notin DOMAIN call.file.data) =>
              (~call.raised /\ call.value = EmptyDict)

\* a load from a profiles file whose content does not parse
C8_Witness ==
    /\ call.op = "get_user_profile_tool"
    /\ call.file.kind = "malformed"
    /\ ~call.raised

\* C9: in every invocation done is not true before answer has completed.
C9_DoneOnlyAfterAnswer ==
    pc \in BeforeAnswerDone => ~("done" \in DOMAIN state /\ state["done"])

\* C10: the state a turn returns has profile_updated = true exactly when
\* run_tools called update_user_profile_tool during that turn.
C10_ProfileUpdatedThisTurn ==
    pc = "end" =>
        /\ "profile_updated" \in DOMAIN state
        /\ state["profile_updated"] <=> (turn.updates > 0)


\* text without its '.' characters
WithoutDots(text) == SelectSeq(text, LAMBDA c : c # ".")

\* the last run of non-whitespace characters of text
LastToken(text) ==
    LET solid == {i \in DOMAIN text : text[i] \notin Whitespace}
        hi == CHOOSE i \in solid : \A j \in solid : j <= i
        starts == {i \in 1..hi : \A j \in i..hi : j \in solid}
        lo == CHOOSE i \in starts : \A j \in starts : i <= j
    IN  SubSeq(text, lo, hi)

\* C11: when the latest user message contains "favorite color" in any case
\* and the model-based planner has chosen update_profile, a completed Act
\* step stores favorite_color = the last token of the message without its
\* dots in the profiles file and in user_profile, and sets profile_updated.
C11_ProfileExtraction ==
    [][ ( /\ pc = "run_tools"
          /\ state["next_action"] = "update_profile"
          /\ LatestUserText # <<>>
          /\ ContainsAnyCase(LatestUserText[1], PhraseColor)
          /\ pc' = "planner" ) =>
            LET value == LastToken(WithoutDots(LatestUserText[1]))
            IN  /\ turn'.updates = turn.updates + 1
                /\ "favorite_color" \in DOMAIN state'["user_profile"]
                /\ state'["user_profile"]["favorite_color"] = value
                /\ state'["profile_updated"] = TRUE
                /\ profiles_file'.kind = "json"
                /\ DemoUser \in DOMAIN profiles_file'.data
                /\ "favorite_color" \in DOMAIN profiles_file'.data[DemoUser]
                /\ profiles_file'.data[DemoUser]["favorite_color"] = value ]_vars

\* Act has just stored the color named by the message
C11_Witness ==
    /\ pc = "planner"
    /\ turn.updates = 1
    /\ turn.decisions # <<>>
    /\ turn.decisions[Len(turn.decisions)] =
          [by |-> "model", action |-> "update_profile"]
    /\ "favorite_color" \in DOMAIN state["user_profile"]
    /\ state["user_profile"]["favorite_color"] = <<"B", "l", "u", "e">>
    /\ state["profile_updated"]


\* the names of the four actions
TerminalActions == {"answer", "ask_clarification"}
ToolActions == {"search_policies", "update_profile"}

\* C12: the nodes of an invocation run in the order Ingest, Plan,
\* (Act, Plan)*, Answer, Log, End: Plan is followed by Answer exactly when
\* next_action is answer or ask_clarification and by Act exactly when it is
\* search_policies or update_profile, Act is followed by Plan, Answer and
\* Log run at most once, and Log runs only after Answer.  A node that
\* raises is followed by no node.
C12_NodeOrder ==
    /\ [][ /\ pc = "idle" => pc' \in {"idle", "exited", "ingest_user"}
           /\ pc = "ingest_user" => pc' \in {"planner", "crashed"}
           /\ pc = "planner" => pc' \in {"answer", "run_tools", "crashed"}
           /\ (pc = "planner" /\ pc' # "crashed") =>
                 /\ pc' = "answer" <=> state'["next_action"] \in TerminalActions
                 /\ pc' = "run_tools" <=> state'["next_action"] \in ToolActions
           /\ pc = "run_tools" => pc' \in {"planner", "crashed"}
           /\ pc = "answer" => pc' \in {"log_episode", "crashed"}
           /\ pc = "log_episode" => pc' \in {"end", "crashed"}
           /\ pc = "end" => pc' = "idle"
           /\ pc \in {"exited", "crashed"} => pc' = pc ]_vars
    /\ [](turn.answer_llm <= 1)
    /\ [](Len(episodes_file) <= Len(turn.entry_log) + 1)
    /\ [](pc \in {"log_episode", "end"} => turn.reply # <<>>)
    /\ [](pc \in BeforeAnswerDone => turn.reply = <<>>)

\* an invocation has ended after Plan, Act, Plan, Act, Plan, Answer, Log
C12_Witness ==
    /\ pc = "end"
    /\ Len(turn.decisions) = 3
    /\ turn.decisions[1].action \in ToolActions
    /\ turn.decisions[2].action \in ToolActions
    /\ turn.decisions[3].action = "ask_clarification"


\* the model has chosen answer or ask_clarification in this invocation
ModelChoseTerminal ==
    \E i \in DOMAIN turn.decisions :
        turn.decisions[i].by = "model" /\ turn.decisions[i].action \in TerminalActions

\* Answer is reached only by a model reply that resolves to answer or
\* ask_clarification; until then the invocation is in Ingest, Plan or Act
NoAnswerWithoutTerminalReply ==
    [](pc \in {"answer", "log_episode", "end"} => ModelChoseTerminal)

\* C13 as stated: every model call returning, an invocation in which a
\* planning reply resolves to answer or ask_clarification eventually reaches
\* the end state, and one in which none does never reaches Answer.
C13_ReachesEnd ==
    /\ (pc = "answer") ~> (pc = "end")
    /\ NoAnswerWithoutTerminalReply

\* C13 amended: such an invocation eventually reaches the end state unless
\* a file operation raises, which aborts it; and an invocation in which no
\* planning reply resolves to answer or ask_clarification never reaches
\* Answer.
C13_ReachesEndOrAborts ==
    /\ (pc = "answer") ~> (pc \in {"end", "crashed"})
    /\ NoAnswerWithoutTerminalReply

\* an invocation has ended after the model chose a tool action three times
C13_Witness ==
    /\ pc = "end"
    /\ Len(turn.decisions) >= 4
    /\ \A i \in 1..3 : turn.decisions[i].action \in ToolActions


\* the decisions of the invocation so far that chose action, and those made
\* by the keyword router
DecisionsFor(action) ==
    { i \in 1..Len(turn.decisions) : turn.decisions[i].action = action }

RuleDecisions ==
    { i \in 1..Len(turn.decisions) : turn.decisions[i].by = "rule" }

\* a search has been decided and Act has not yet run it
SearchPending ==
    IF pc = "run_tools" /\ state["next_action"] = "search_policies" THEN 1 ELSE 0

\* C14 as stated: the keyword short-circuit and the already-searched check
\* keep Act from searching again for the message of the invocation, so an
\* invocation searches at most once whatever the model replies.
C14_SearchBounded == turn.searches <= 1

\* C14 amended: only the keyword router is bounded, to one decision per
\* invocation; Act runs one search for every search_policies decision, the
\* model's included, so the searches of an invocation are as many as the
\* decisions for search_policies.
C14_SearchPerDecision ==
    /\ Cardinality(RuleDecisions) <= 1
    /\ turn.rule_hits = Cardinality(RuleDecisions)
    /\ turn.searches = Cardinality(DecisionsFor("search_policies")) - SearchPending

\* an invocation has ended in which Act searched once for the keyword router
\* and three more times for the model
C14_Witness ==
    /\ pc = "end"
    /\ Cardinality(RuleDecisions) = 1
    /\ turn.searches >= 4


\* the markers in the order the claim fixes
MarkerOrder ==
    << [name |-> "search_policies", text |-> MarkerSearch],
       [name |-> "update_profile", text |-> MarkerUpdate],
       [name |-> "ask_clarification", text |-> MarkerAsk],
       [name |-> "answer", text |-> MarkerAnswer] >>

MarkersIn(reply) ==
    { i \in 1..Len(MarkerOrder) : ContainsAnyCase(reply, MarkerOrder[i].text) }

FirstMarkerAction(reply) ==
    IF MarkersIn(reply) = {} THEN "answer"
    ELSE MarkerOrder[CHOOSE i \in MarkersIn(reply) :
                        \A j \in MarkersIn(reply) : i <= j].name

\* C15: the action parsed from a model reply is the first marker, in the
\* order search_policies, update_profile, ask_clarification, answer, that
\* occurs anywhere in the reply without regard to case, and answer when
\* none occurs; it is always one of the four action names.
C15_FirstMarkerWins ==
    call.op = "parse_action" =>
        /\ call.result = FirstMarkerAction(call.reply)
        /\ call.result \in TerminalActions \cup ToolActions

\* a reply with the marker of answer before the marker of update_profile
\* has been parsed as update_profile
C15_Witness ==
    /\ call.op = "parse_action"
    /\ call.reply = ReplyTwo
    /\ Cardinality(MarkersIn(call.reply)) = 2
    /\ call.result = "update_profile"


\* C16: within a session the conversation only grows: every step leaves the
\* messages it found as a prefix of the messages it leaves, so the messages
\* of every earlier state are a prefix of those of every later state; and no
\* message of the conversation has the system role.
C16_ConversationGrows ==
    /\ [][IsPrefix(Messages, Messages')]_vars
    /\ [](\A i \in 1..Len(Messages) : Messages[i].role \in {"user", "assistant"})
    /\ [](IsPrefix(SubSeq(Messages, 1, turn.entry_len), Messages))

\* a second invocation has ended with two model replies appended after the
\* messages of the first
C16_Witness ==
    /\ pc = "end"
    /\ turn.entry_len >= 3
    /\ Len(Messages) >= turn.entry_len + 2
    /\ Messages[turn.entry_len].role = "user"


\* C17: when an invocation has reached the end state, the last message is
\* the assistant message Answer appended in this invocation, after the user
\* message and after every planning reply of the invocation, and the text
\* the driver then prints is that reply.
C17_PrintsFinalReply ==
    /\ [](pc = "end" =>
            /\ turn.reply # <<>>
            /\ Len(Messages) = turn.entry_len + turn.plan_llm + 1
            /\ Messages[Len(Messages)] = AIMessage(turn.reply[1])
            /\ Messages[turn.entry_len].role = "user")
    /\ [][pc = "end" => (pc' = "idle" /\ printed' = turn.reply[1])]_vars

\* the driver has printed the reply of Answer of an invocation whose last
\* planning reply was a different text
C17_Witness ==
    /\ pc = "idle"
    /\ turn.reply # <<>>
    /\ printed = turn.reply[1]
    /\ turn.plan_llm >= 1
    /\ Messages[Len(Messages) - 1].role = "assistant"
    /\ Messages[Len(Messages) - 1].content # printed


\* a line without its leading and without its trailing blanks
RECURSIVE DropLeading(_)
DropLeading(s) ==
    IF s # <<>> /\ Head(s) \in Whitespace THEN DropLeading(Tail(s)) ELSE s

RECURSIVE DropTrailing(_)
DropTrailing(s) ==
    IF s # <<>> /\ s[Len(s)] \in Whitespace
    THEN DropTrailing(SubSeq(s, 1, Len(s) - 1))
    ELSE s

Trimmed(line) == DropTrailing(DropLeading(line))

SameWord(text, word) ==
    /\ Len(text) = Len(word)
    /\ \A j \in 1..Len(word) : LowerChar(text[j]) = word[j]

IsExitWord(text) == \E word \in ExitWords : SameWord(text, word)

\* C18: a pass of the driver loop.  On end of input, and on a line that
\* trimmed is exit, quit or q in any case, the loop stops and nothing is
\* invoked; on a line that is empty once trimmed the loop prompts again;
\* in these cases the session state, the profile store and the episode log
\* stay as they were.  Any other line appends exactly one user message, the
\* trimmed line, and starts exactly one invocation.
C18_DriverLoop ==
    [][pc = "idle" =>
         /\ profiles_file' = profiles_file
         /\ episodes_file' = episodes_file
         /\ IF turn'.line = <<>>
            THEN pc' = "exited" /\ state' = state
            ELSE LET text == Trimmed(turn'.line[1])
                 IN  IF IsExitWord(text)
                     THEN pc' = "exited" /\ state' = state
                     ELSE IF text = <<>>
                     THEN pc' = "idle" /\ state' = state
                     ELSE /\ pc' = "ingest_user"
                          /\ Messages' = Append(Messages, HumanMessage(text))
                          /\ \A k \in DOMAIN state \ {"messages"} :
                                k \in DOMAIN state' /\ state'[k] = state[k]
                          /\ DOMAIN state' = DOMAIN state \cup {"messages"}
                          /\ turn'.entry_len = Len(Messages) + 1
                          /\ turn'.decisions = <<>> ]_vars

\* the loop has stopped on the line " Q " after one completed invocation
C18_Witness ==
    /\ pc = "exited"
    /\ turn.line = <<LineQuit>>
    /\ turn.reply # <<>>
    /\ Len(Messages) >= 2


\* the nodes after Ingest, and the end state
AfterIngest == {"planner", "run_tools", "answer", "log_episode", "end"}

\* C19: with the program the only writer of the profile store, once Ingest
\* has run the user_profile of the session state is the profile the store
\* holds for the session's user: after every node step and between turns.
C19_ProfileMirrorsStore ==
    /\ pc \in AfterIngest => "user_profile" \in DOMAIN state
    /\ (pc \in {"idle", "exited"} /\ turn.entry_len > 0) =>
            "user_profile" \in DOMAIN state
    /\ "user_profile" \in DOMAIN state =>
            state["user_profile"] = StoredFacts(profiles_file, state["user_id"])

\* a turn has ended after Act merged a new favorite color into a profile
\* that already held a city
C19_Witness ==
    /\ pc = "end"
    /\ turn.updates >= 1
    /\ DOMAIN state["user_profile"] = {"favorite_color", "city"}
    /\ state["user_profile"]["city"] = Lyon
    /\ state["user_profile"]["favorite_color"] # Red
    /\ StoredFacts(profiles_file, DemoUser) = state["user_profile"]


\* C20: within one invocation the keyword router fires at most once: once
\* Act has searched, policy_query is the text of the latest user message for
\* the rest of the invocation, and every later Plan step calls the model
\* and leaves the count of rule decisions as it is.
C20_RuleFiresOnce ==
    /\ [](turn.rule_hits <= 1)
    /\ [](turn.searches >= 1 => QueryIsLatest)
    /\ [][(pc = "planner" /\ turn.searches >= 1) =>
            /\ turn'.plan_llm = turn.plan_llm + 1
            /\ turn'.rule_hits = turn.rule_hits]_vars

\* an invocation on a message naming a policy keyword has ended after one
\* rule decision and three Plan steps that asked the model
C20_Witness ==
    /\ pc = "end"
    /\ NamesPolicyKeyword
    /\ turn.rule_hits = 1
    /\ turn.decisions[1].by = "rule"
    /\ turn.plan_llm >= 3

====
